---- MODULE Spec2Model ----
(***************************************************************************)
(* Session lifecycle of SSHMCPServer (src/src/ssh-mcp-server.ts): the      *)
(* single ssh2 connection slot, the tool operations that change it and the *)
(* transport events (ready / error / end, channel callbacks, timers) that  *)
(* run as separate callbacks on the JavaScript event loop.  Every handler  *)
(* and every callback runs to completion, so each is one action.           *)
(***************************************************************************)
EXTENDS Integers, Sequences, FiniteSets, TLC

(***************************************************************************)
(* Bounds of the model.                                                    *)
(***************************************************************************)
\* Clients created in a run of the session model; a run of the reconnect model
\* creates one more
MaxClients == 2
\* Clients created in a run of the argument model
MaxArgClients == 1
\* Clients created, executions in flight at once and chunks delivered to one
\* execution in a run of the execution model; a run of the execution model
\* with overlapping calls creates one client more
MaxExecClients == 1
MaxExecs == 1
MaxChunks == 1

(***************************************************************************)
(* JavaScript values that reach the handlers as tool arguments.            *)
(***************************************************************************)
Undef == [t |-> "undefined", s |-> "", n |-> 0]
Null == [t |-> "null", s |-> "", n |-> 0]
Str(s) == [t |-> "string", s |-> s, n |-> 0]
Num(n) == [t |-> "number", s |-> "", n |-> n]

\* ToBoolean: undefined, null, "" and 0 are falsy.
Truthy(v) ==
  \/ v.t = "string" /\ v.s # ""
  \/ v.t = "number" /\ v.n # 0

\* a || b
OrElse(a, b) == IF Truthy(a) THEN a ELSE b

\* destructuring default: `x = d` applies to undefined only
Default(v, d) == IF v.t = "undefined" THEN d ELSE v

DefaultPort == 22

(***************************************************************************)
(* Arguments of ssh_connect.                                               *)
(***************************************************************************)
Args(h, p, u, pw, k, pp) ==
  [host |-> h, port |-> p, username |-> u, password |-> pw,
   privateKey |-> k, passphrase |-> pp]

\* The session model connects to two servers: one by password with the port
\* omitted, one by private key with a port.
PasswordArgs == Args(Str("h1"), Undef, Str("u1"), Str("pw"), Undef, Undef)
KeyArgs == Args(Str("h2"), Num(2222), Str("u1"), Undef, Str("key"), Str("pp"))

ValidConnectArgs == {PasswordArgs, KeyArgs}

InvalidConnectArgs ==
  { [PasswordArgs EXCEPT !.host = Undef],
    [PasswordArgs EXCEPT !.host = Str("")],
    [PasswordArgs EXCEPT !.username = Undef],
    [KeyArgs EXCEPT !.username = Str("")],
    [PasswordArgs EXCEPT !.password = Undef],
    [PasswordArgs EXCEPT !.password = Str("")] }

ConnectArgs == ValidConnectArgs \cup InvalidConnectArgs

\* A run of the argument model connects with one combination of absent, empty
\* and present arguments, any of these.
AllConnectArgs ==
  { Args(h, p, u, pw, k, pp) :
      h \in {Undef, Str(""), Str("h1")},
      p \in {Undef, Num(0), Num(2222)},
      u \in {Undef, Str(""), Str("u1")},
      pw \in {Undef, Str(""), Str("pw")},
      k \in {Undef, Str(""), Str("key")},
      pp \in {Undef, Str("pp")} }

\* reasons the transport gives for a failed connection
Reasons == {"ECONNREFUSED", "auth failed"}

(***************************************************************************)
(* Errors and results of tool calls.                                       *)
(***************************************************************************)
NoPayload == [none |-> TRUE]

McpError(op, code, message) ==
  [op |-> op, kind |-> "error", code |-> code, message |-> message,
   payload |-> NoPayload]

Content(op, payload) ==
  [op |-> op, kind |-> "result", code |-> "", message |-> "",
   payload |-> payload]

NoResult ==
  [op |-> "", kind |-> "none", code |-> "", message |-> "",
   payload |-> NoPayload]

NoError == [kind |-> "ok"]

\* a failure that is not an McpError: a JavaScript Error with its message
JsError(message) ==
  [op |-> "", kind |-> "thrown", code |-> "", message |-> message,
   payload |-> NoPayload]

\* a catch that wraps every failure, the typed ones too
CallToolCatch_WrapsAll(op, error) ==
  IF error.kind \in {"error", "thrown"}
  THEN McpError(op, "InternalError", "Tool execution failed: " \o error.message)
  ELSE error

\* the catch of the CallToolRequestSchema handler around the awaited
\* operation: an McpError is thrown on as it is, any other failure is wrapped
CallToolCatch(op, error) ==
  IF error.kind = "thrown"
  THEN McpError(op, "InternalError", "Tool execution failed: " \o error.message)
  ELSE error

(***************************************************************************)
(* State.                                                                  *)
(***************************************************************************)
VARIABLES
  sshConnection,     \* index into clients of the installed Client, 0 = null
  connectionConfig,  \* SSHConnectionConfig of the session, NullConfig = null
  isConnected,       \* the connected flag
  clients,           \* every Client made by `new Client()`, in creation order
  execs,             \* the executions of executeSSHCommand still in flight
  result,            \* outcome of the tool call the last step completed, if any
  calls,             \* transport calls the last step made, in program order
  serialized,        \* TRUE: the dispatcher starts a call only when none is pending
  scope              \* the clients, executions, chunks and arguments of the run

vars == <<sshConnection, connectionConfig, isConnected, clients, execs,
          result, calls, serialized, scope>>

\* the session model follows no accepted execution; the execution model does,
\* on connections to one server, and to two servers where calls overlap; a run
\* of the argument model uses one ssh_connect argument record
SessionScope ==
  [clients |-> MaxClients, execs |-> 0, chunks |-> 0, connectArgs |-> ConnectArgs, execArgs |-> "all"]
ReconnectScope ==
  [clients |-> MaxClients + 1, execs |-> 0, chunks |-> 0,
   connectArgs |-> ConnectArgs, execArgs |-> "all"]
ExecScope ==
  [clients |-> MaxExecClients, execs |-> MaxExecs, chunks |-> MaxChunks,
   connectArgs |-> {PasswordArgs}, execArgs |-> "all"]
ExecConcScope ==
  [clients |-> MaxExecClients + 1, execs |-> MaxExecs, chunks |-> MaxChunks,
   connectArgs |-> ValidConnectArgs, execArgs |-> "all"]
\* one connection, executions with one more chunk of output
StreamScope ==
  [clients |-> MaxExecClients, execs |-> MaxExecs, chunks |-> MaxChunks + 1,
   connectArgs |-> {PasswordArgs}, execArgs |-> "plain"]

\* a single connection that all executions share, with one more execution,
\* tool calls overlapping
IsolationScope ==
  [clients |-> 1, execs |-> MaxExecs + 1, chunks |-> MaxChunks,
   connectArgs |-> {PasswordArgs}, execArgs |-> "plain"]

\* one connection with executions, tool calls overlapping
OverlapScope ==
  [clients |-> MaxExecClients, execs |-> MaxExecs, chunks |-> MaxChunks,
   connectArgs |-> {PasswordArgs}, execArgs |-> "plain"]

\* the environment-configured server: calls, each with a Client of its own
EnvScope ==
  [clients |-> 0, execs |-> MaxExecs, chunks |-> MaxChunks,
   connectArgs |-> {}, execArgs |-> "all"]

ArgScope(args) ==
  [clients |-> MaxArgClients, execs |-> 0, chunks |-> 0, connectArgs |-> {args}, execArgs |-> "all"]

NullConfig == [isNull |-> TRUE]

ClientIds == 1..Len(clients)
ExecIds == 1..Len(execs)

\* Phases of a Client: "connecting" until its first event; "ready" once the
\* connection is established; "failed" after an error before ready; "errored"
\* and "ended" after the error or end event that terminates an established
\* connection (a Client emits one terminating event).
\*
\* a Client the server created that it has not ended and that the transport
\* has not terminated
Live(c) ==
  /\ clients[c].endCalls = 0
  /\ clients[c].phase \in {"connecting", "ready"}

LiveClients == {c \in ClientIds : Live(c)}

\* a tool call whose promise has not settled
Busy ==
  \/ \E c \in ClientIds : clients[c].promise = "pending"
  \/ \E e \in ExecIds : execs[e].promise = "pending"

CanCall == serialized => ~Busy

\* a call on the transport: its name, the Client it is made on, its argument
TransportCall(name, c, arg) == [call |-> name, client |-> c, arg |-> arg]

NoArg == [none |-> TRUE]

\* validateSSHConfig without the credential check
validateSSHConfig_NoAuthCheck(config) ==
  IF ~Truthy(config.host) \/ ~Truthy(config.username)
  THEN McpError("connect", "InvalidRequest",
                "SSH configuration incomplete. Required: host, username")
  ELSE NoError

(***************************************************************************)
(* validateSSHConfig: the error it throws, NoError when it returns.        *)
(***************************************************************************)
validateSSHConfig(config) ==
  IF ~Truthy(config.host) \/ ~Truthy(config.username)
  THEN McpError("connect", "InvalidRequest",
                "SSH configuration incomplete. Required: host, username")
  ELSE IF ~Truthy(config.password) /\ ~Truthy(config.privateKey)
  THEN McpError("connect", "InvalidRequest",
                "SSH authentication incomplete. Provide either password or privateKey")
  ELSE NoError

\* an inference that prefers the password when both credentials are given
authMethod_PasswordFirst(config) ==
  IF Truthy(config.password) THEN "password" ELSE "key"

authMethod(config) == IF Truthy(config.privateKey) THEN "key" ELSE "password"

\* the options object handed to conn.connect
\* connect options that carry every credential of the config
connectOptions_AllCredentials(config) ==
  [host |-> config.host, port |-> config.port, username |-> config.username,
   privateKey |-> config.privateKey, passphrase |-> config.passphrase,
   password |-> config.password]

connectOptions(config) ==
  [host |-> config.host, port |-> config.port, username |-> config.username,
   privateKey |-> IF Truthy(config.privateKey) THEN config.privateKey ELSE Undef,
   passphrase |-> IF Truthy(config.privateKey) /\ Truthy(config.passphrase)
                  THEN config.passphrase ELSE Undef,
   password |-> IF ~Truthy(config.privateKey) /\ Truthy(config.password)
                THEN config.password ELSE Undef]

NewClient(config) ==
  [cfg |-> config, phase |-> "connecting", endCalls |-> 0, promise |-> "pending"]

\* sshConfig built from the destructured arguments
SshConfigOf(args) == [args EXCEPT !.port = Default(args.port, Num(DefaultPort))]

\* connectToSSH that creates and connects the new client before it ends the
\* old one
connectToSSH_LateTeardown(args) ==
  LET old == sshConnection
      torn == old # 0
      ended == IF torn THEN [clients EXCEPT ![old].endCalls = @ + 1] ELSE clients
      endCall == IF torn THEN <<TransportCall("end", old, NoArg)>> ELSE <<>>
      sshConfig == SshConfigOf(args)
      invalid == validateSSHConfig(sshConfig)
      conn == Len(clients) + 1
  IN /\ CanCall
     /\ invalid = NoError => Len(clients) < scope.clients
     /\ sshConnection' = 0
     /\ isConnected' = IF torn THEN FALSE ELSE isConnected
     /\ UNCHANGED <<connectionConfig, execs, serialized, scope>>
     /\ IF invalid # NoError
        THEN /\ clients' = ended
             /\ calls' = endCall
             /\ result' = invalid
        ELSE /\ clients' = Append(ended, NewClient(sshConfig))
             /\ calls' = <<TransportCall("new", conn, NoArg),
                           TransportCall("connect", conn, connectOptions(sshConfig))>>
                          \o endCall
             /\ result' = NoResult

(***************************************************************************)
(* ssh_connect: connectToSSH up to the return of the pending promise.      *)
(***************************************************************************)
connectToSSH(args) ==
  LET old == sshConnection
      torn == old # 0
      ended == IF torn THEN [clients EXCEPT ![old].endCalls = @ + 1] ELSE clients
      endCall == IF torn THEN <<TransportCall("end", old, NoArg)>> ELSE <<>>
      sshConfig == SshConfigOf(args)
      invalid == validateSSHConfig(sshConfig)
      conn == Len(clients) + 1
  IN /\ CanCall
     /\ invalid = NoError => Len(clients) < scope.clients
     /\ sshConnection' = 0
     /\ isConnected' = IF torn THEN FALSE ELSE isConnected
     /\ UNCHANGED <<connectionConfig, execs, serialized, scope>>
     /\ IF invalid # NoError
        THEN /\ clients' = ended
             /\ calls' = endCall
             /\ result' = CallToolCatch("connect", invalid)
        ELSE /\ clients' = Append(ended, NewClient(sshConfig))
             /\ calls' = endCall \o
                          <<TransportCall("new", conn, NoArg),
                            TransportCall("connect", conn, connectOptions(sshConfig))>>
             /\ result' = NoResult

ConnectSummary(config) ==
  [status |-> "connected", host |-> config.host, port |-> config.port,
   username |-> config.username, authMethod |-> Str(authMethod(config))]

\* conn.on('ready')
\* a ready handler that keeps a config that is still stored
onReady_KeepsStoredConfig(c) ==
  /\ clients[c].phase = "connecting"
  /\ sshConnection' = c
  /\ connectionConfig' = IF connectionConfig = NullConfig THEN clients[c].cfg
                         ELSE connectionConfig
  /\ isConnected' = TRUE
  /\ clients' = [clients EXCEPT ![c].phase = "ready", ![c].promise = "resolved"]
  /\ result' = Content("connect", ConnectSummary(clients[c].cfg))
  /\ calls' = <<>>
  /\ UNCHANGED <<execs, serialized, scope>>

onReady(c) ==
  /\ clients[c].phase = "connecting"
  /\ sshConnection' = c
  /\ connectionConfig' = clients[c].cfg
  /\ isConnected' = TRUE
  /\ clients' = [clients EXCEPT ![c].phase = "ready", ![c].promise = "resolved"]
  /\ result' = Content("connect", ConnectSummary(clients[c].cfg))
  /\ calls' = <<>>
  /\ UNCHANGED <<execs, serialized, scope>>

\* an error handler that rejects without the reason of the failure
onError_NoReason(c, reason) ==
  /\ clients[c].phase \in {"connecting", "ready"}
  /\ sshConnection' = 0
  /\ connectionConfig' = NullConfig
  /\ isConnected' = FALSE
  /\ clients' = [clients EXCEPT
                   ![c].phase = IF @ = "connecting" THEN "failed" ELSE "errored",
                   ![c].promise = IF @ = "pending" THEN "rejected" ELSE @]
  /\ result' = IF clients[c].promise = "pending"
               THEN McpError("connect", "InternalError", "SSH connection failed")
               ELSE NoResult
  /\ calls' = <<>>
  /\ UNCHANGED <<execs, serialized, scope>>

\* an error handler that clears the handle and the config but not the flag
onError_KeepsFlag(c, reason) ==
  /\ clients[c].phase \in {"connecting", "ready"}
  /\ sshConnection' = 0
  /\ connectionConfig' = NullConfig
  /\ clients' = [clients EXCEPT
                   ![c].phase = IF @ = "connecting" THEN "failed" ELSE "errored",
                   ![c].promise = IF @ = "pending" THEN "rejected" ELSE @]
  /\ result' = IF clients[c].promise = "pending"
               THEN McpError("connect", "InternalError",
                             "SSH connection failed: " \o reason)
               ELSE NoResult
  /\ calls' = <<>>
  /\ UNCHANGED <<isConnected, execs, serialized, scope>>

\* conn.on('error'): a failed attempt, or a failure of an established connection
onError(c, reason) ==
  /\ clients[c].phase \in {"connecting", "ready"}
  /\ sshConnection' = 0
  /\ connectionConfig' = NullConfig
  /\ isConnected' = FALSE
  /\ clients' = [clients EXCEPT
                   ![c].phase = IF @ = "connecting" THEN "failed" ELSE "errored",
                   ![c].promise = IF @ = "pending" THEN "rejected" ELSE @]
  /\ result' = IF clients[c].promise = "pending"
               THEN CallToolCatch("connect", McpError("connect", "InternalError",
                             "SSH connection failed: " \o reason))
               ELSE NoResult
  /\ calls' = <<>>
  /\ UNCHANGED <<execs, serialized, scope>>

\* an end handler that clears the handle and the flag but keeps the config
onEnd_KeepsConfig(c) ==
  /\ clients[c].phase = "ready"
  /\ sshConnection' = 0
  /\ isConnected' = FALSE
  /\ clients' = [clients EXCEPT ![c].phase = "ended"]
  /\ result' = NoResult
  /\ calls' = <<>>
  /\ UNCHANGED <<connectionConfig, execs, serialized, scope>>

\* conn.on('end'): the socket of an established connection was closed, by the
\* remote side or as the consequence of end()
onEnd(c) ==
  /\ clients[c].phase = "ready"
  /\ sshConnection' = 0
  /\ connectionConfig' = NullConfig
  /\ isConnected' = FALSE
  /\ clients' = [clients EXCEPT ![c].phase = "ended"]
  /\ result' = NoResult
  /\ calls' = <<>>
  /\ UNCHANGED <<execs, serialized, scope>>

\* a disconnect that reports "disconnected" also when nothing is connected
disconnectFromSSH_AlwaysDisconnected ==
  /\ CanCall
  /\ IF sshConnection # 0
     THEN /\ clients' = [clients EXCEPT ![sshConnection].endCalls = @ + 1]
          /\ calls' = <<TransportCall("end", sshConnection, NoArg)>>
     ELSE /\ calls' = <<>>
          /\ UNCHANGED clients
  /\ sshConnection' = 0
  /\ connectionConfig' = NullConfig
  /\ isConnected' = FALSE
  /\ result' = Content("disconnect", [status |-> "disconnected", message |-> ""])
  /\ UNCHANGED <<execs, serialized, scope>>

(***************************************************************************)
(* ssh_disconnect                                                          *)
(***************************************************************************)
disconnectFromSSH ==
  /\ CanCall
  /\ IF sshConnection # 0
     THEN /\ clients' = [clients EXCEPT ![sshConnection].endCalls = @ + 1]
          /\ calls' = <<TransportCall("end", sshConnection, NoArg)>>
          /\ sshConnection' = 0
          /\ connectionConfig' = NullConfig
          /\ isConnected' = FALSE
          /\ result' = Content("disconnect",
                               [status |-> "disconnected", message |-> ""])
     ELSE /\ calls' = <<>>
          /\ result' = Content("disconnect",
                               [status |-> "no_connection",
                                message |-> "No active SSH connection to disconnect"])
          /\ UNCHANGED <<sshConnection, connectionConfig, isConnected, clients>>
  /\ UNCHANGED <<execs, serialized, scope>>

(***************************************************************************)
(* ssh_status                                                              *)
(***************************************************************************)
StatusPayload ==
  [connected |-> isConnected,
   host |-> IF connectionConfig = NullConfig THEN Null
            ELSE OrElse(connectionConfig.host, Null),
   port |-> IF connectionConfig = NullConfig THEN Null
            ELSE OrElse(connectionConfig.port, Null),
   username |-> IF connectionConfig = NullConfig THEN Null
                ELSE OrElse(connectionConfig.username, Null),
   authMethod |-> IF connectionConfig = NullConfig THEN Null
                  ELSE Str(authMethod(connectionConfig))]

\* a status call that probes the connection it reports on
getSSHStatus_Probes ==
  /\ CanCall
  /\ result' = Content("status", StatusPayload)
  /\ calls' = IF sshConnection # 0
              THEN <<TransportCall("exec", sshConnection, "true")>> ELSE <<>>
  /\ UNCHANGED <<sshConnection, connectionConfig, isConnected, clients, execs,
                 serialized, scope>>

getSSHStatus ==
  /\ CanCall
  /\ result' = Content("status", StatusPayload)
  /\ calls' = <<>>
  /\ UNCHANGED <<sshConnection, connectionConfig, isConnected, clients, execs,
                 serialized, scope>>

(***************************************************************************)
(* ssh_exec.  A working directory is a string given by its characters, so  *)
(* that the path pattern is applied character by character.                *)
(***************************************************************************)
RECURSIVE Join(_)
Join(chars) == IF chars = <<>> THEN "" ELSE Head(chars) \o Join(Tail(chars))

PathStr(chars) == [t |-> "string", s |-> Join(chars), n |-> 0, c |-> chars]

Letters == {"a", "t", "Z"}
Digits == {"0", "9"}
\* the characters validPathRegex admits, among those the model uses
PathChars == Letters \cup Digits \cup {"/", ".", "_", "-"}

validPathRegex(wd) ==
  /\ Len(wd.c) >= 1
  /\ \A i \in 1..Len(wd.c) : wd.c[i] \in PathChars

DefaultTimeout == 30000

RECURSIVE NumberToString(_)
NumberToString(n) ==
  LET digit == <<"0", "1", "2", "3", "4", "5", "6", "7", "8", "9">>
  IN IF n < 10 THEN digit[n + 1] ELSE NumberToString(n \div 10) \o digit[(n % 10) + 1]

ExecArgs(cmd, to, wd) == [command |-> cmd, timeout |-> to, workingDirectory |-> wd]

CommandArgs == {Undef, Str(""), Num(7), Str("ls")}
WorkingDirectoryArgs == {Undef, PathStr(<<"/", "t">>), PathStr(<<"/", ";">>)}

\* every command without a working directory, the valid command with each
AllExecArgs ==
  {ExecArgs(cmd, Undef, Undef) : cmd \in CommandArgs}
    \cup {ExecArgs(Str("ls"), Undef, wd) : wd \in WorkingDirectoryArgs}
    \cup {ExecArgs(Str(""), Undef, PathStr(<<"/", ";">>))}

\* the execute arguments of a run: all of them, or the plain command alone
ScopedExecArgs ==
  IF scope.execArgs = "plain" THEN {ExecArgs(Str("ls"), Undef, Undef)}
  ELSE AllExecArgs

ExitCodes == {0, 1}

\* the chunks a channel delivers are told apart by their order of arrival
NextChunk(x) == NumberToString(x.chunks + 1)
\* ... prefixed with the stream that delivers it
StdoutChunk(x) == "o" \o NextChunk(x)
StderrChunk(x) == "e" \o NextChunk(x)

\* a composition that leaves out the quotes around the directory
finalCommandOf_NoQuotes(command, workingDirectory) ==
  IF Truthy(workingDirectory)
  THEN "cd " \o workingDirectory.s \o " && " \o command.s
  ELSE command.s

finalCommandOf(command, workingDirectory) ==
  IF Truthy(workingDirectory)
  THEN "cd \"" \o workingDirectory.s \o "\" && " \o command.s
  ELSE command.s

NewExec(client, command, timeout, workingDirectory) ==
  [client |-> client, command |-> command, timeout |-> timeout,
   workingDirectory |-> workingDirectory,
   finalCommand |-> finalCommandOf(command, workingDirectory),
   chan |-> "requested", timer |-> "armed", promise |-> "pending",
   output |-> "", errorOutput |-> "", chunks |-> 0]

\* an execution none of whose callbacks can run any more: the promise is
\* settled, the timer is spent and the channel is gone
Finished(x) ==
  /\ x.promise # "pending"
  /\ x.timer # "armed"
  /\ x.chan \in {"none", "failed", "closed"}

Replace(e, x) ==
  IF Finished(x)
  THEN SubSeq(execs, 1, e - 1) \o SubSeq(execs, e + 1, Len(execs))
  ELSE [execs EXCEPT ![e] = x]

\* executeSSHCommand that checks the connection before the command
executeSSHCommand_ConnectedFirst(args) ==
  LET command == args.command
      timeout == Default(args.timeout, Num(DefaultTimeout))
      workingDirectory == args.workingDirectory
      x == NewExec(sshConnection, command, timeout, workingDirectory)
  IN /\ CanCall
     /\ UNCHANGED <<sshConnection, connectionConfig, isConnected, clients,
                    serialized, scope>>
     /\ IF sshConnection = 0 \/ ~isConnected
        THEN /\ result' = McpError("exec", "InvalidRequest",
                                   "Not connected to SSH server. Use ssh_connect first.")
             /\ calls' = <<>>
             /\ UNCHANGED execs
        ELSE IF ~Truthy(command) \/ command.t # "string"
        THEN /\ result' = McpError("exec", "InvalidRequest",
                                   "Command is required and must be a string")
             /\ calls' = <<>>
             /\ UNCHANGED execs
        ELSE /\ Len(execs) < scope.execs
             /\ IF Truthy(workingDirectory) /\ ~validPathRegex(workingDirectory)
                THEN \* thrown inside the promise executor, after setTimeout
                     /\ execs' = Append(execs, [x EXCEPT !.chan = "none",
                                                         !.promise = "rejected",
                                                         !.finalCommand = command.s])
                     /\ result' = McpError("exec", "InvalidRequest",
                                           "Invalid working directory format")
                     /\ calls' = <<>>
                ELSE /\ execs' = Append(execs, x)
                     /\ result' = NoResult
                     /\ calls' = <<TransportCall("exec", sshConnection,
                                                  x.finalCommand)>>

\* executeSSHCommand without the check of the working directory
executeSSHCommand_NoPathCheck(args) ==
  LET command == args.command
      timeout == Default(args.timeout, Num(DefaultTimeout))
      workingDirectory == args.workingDirectory
      x == NewExec(sshConnection, command, timeout, workingDirectory)
  IN /\ CanCall
     /\ UNCHANGED <<sshConnection, connectionConfig, isConnected, clients,
                    serialized, scope>>
     /\ IF ~Truthy(command) \/ command.t # "string"
        THEN /\ result' = McpError("exec", "InvalidRequest",
                                   "Command is required and must be a string")
             /\ calls' = <<>>
             /\ UNCHANGED execs
        ELSE IF sshConnection = 0 \/ ~isConnected
        THEN /\ result' = McpError("exec", "InvalidRequest",
                                   "Not connected to SSH server. Use ssh_connect first.")
             /\ calls' = <<>>
             /\ UNCHANGED execs
        ELSE /\ Len(execs) < scope.execs
             /\ execs' = Append(execs, x)
             /\ result' = NoResult
             /\ calls' = <<TransportCall("exec", sshConnection, x.finalCommand)>>

executeSSHCommand(args) ==
  LET command == args.command
      timeout == Default(args.timeout, Num(DefaultTimeout))
      workingDirectory == args.workingDirectory
      x == NewExec(sshConnection, command, timeout, workingDirectory)
  IN /\ CanCall
     /\ UNCHANGED <<sshConnection, connectionConfig, isConnected, clients,
                    serialized, scope>>
     /\ IF ~Truthy(command) \/ command.t # "string"
        THEN /\ result' = CallToolCatch("exec", McpError("exec", "InvalidRequest",
                                   "Command is required and must be a string"))
             /\ calls' = <<>>
             /\ UNCHANGED execs
        ELSE IF sshConnection = 0 \/ ~isConnected
        THEN /\ result' = CallToolCatch("exec", McpError("exec", "InvalidRequest",
                                   "Not connected to SSH server. Use ssh_connect first."))
             /\ calls' = <<>>
             /\ UNCHANGED execs
        ELSE /\ Len(execs) < scope.execs
             /\ IF Truthy(workingDirectory) /\ ~validPathRegex(workingDirectory)
                THEN \* thrown inside the promise executor, after setTimeout
                     /\ execs' = Append(execs, [x EXCEPT !.chan = "none",
                                                         !.promise = "rejected",
                                                         !.finalCommand = command.s])
                     /\ result' = CallToolCatch("exec", McpError("exec", "InvalidRequest",
                                           "Invalid working directory format"))
                     /\ calls' = <<>>
                ELSE /\ execs' = Append(execs, x)
                     /\ result' = NoResult
                     /\ calls' = <<TransportCall("exec", sshConnection,
                                                  x.finalCommand)>>

\* an exec callback that rejects on an error but leaves the countdown running
execCallback_KeepsTimer(e, err) ==
  LET x == execs[e]
  IN /\ x.chan = "requested"
     /\ calls' = <<>>
     /\ UNCHANGED <<sshConnection, connectionConfig, isConnected, clients,
                    serialized, scope>>
     /\ IF err # ""
        THEN /\ execs' = Replace(e, [x EXCEPT
                           !.chan = "failed",
                           !.promise = IF @ = "pending" THEN "rejected" ELSE @])
             /\ result' = IF x.promise = "pending"
                          THEN McpError("exec", "InternalError",
                                        "Failed to execute command: " \o err)
                          ELSE NoResult
        ELSE /\ execs' = Replace(e, [x EXCEPT !.chan = "open"])
             /\ result' = NoResult

\* the callback of exec(), with an error or with the stream
execCallback(e, err) ==
  LET x == execs[e]
  IN /\ x.chan = "requested"
     /\ calls' = <<>>
     /\ UNCHANGED <<sshConnection, connectionConfig, isConnected, clients,
                    serialized, scope>>
     /\ IF err # ""
        THEN /\ execs' = Replace(e, [x EXCEPT
                           !.chan = "failed",
                           !.timer = IF @ = "armed" THEN "cleared" ELSE @,
                           !.promise = IF @ = "pending" THEN "rejected" ELSE @])
             /\ result' = IF x.promise = "pending"
                          THEN CallToolCatch("exec", McpError("exec", "InternalError",
                                        "Failed to execute command: " \o err))
                          ELSE NoResult
        ELSE /\ execs' = Replace(e, [x EXCEPT !.chan = "open"])
             /\ result' = NoResult

\* stream.on('data')
onData(e, data) ==
  LET x == execs[e]
  IN /\ x.chan = "open"
     /\ x.chunks < scope.chunks
     /\ execs' = Replace(e, [x EXCEPT !.output = @ \o data, !.chunks = @ + 1])
     /\ result' = NoResult
     /\ calls' = <<>>
     /\ UNCHANGED <<sshConnection, connectionConfig, isConnected, clients,
                    serialized, scope>>

\* a stderr handler that appends to the buffer of stdout
onStderrData_IntoOutput(e, data) ==
  LET x == execs[e]
  IN /\ x.chan = "open"
     /\ x.chunks < scope.chunks
     /\ execs' = Replace(e, [x EXCEPT !.output = @ \o data, !.chunks = @ + 1])
     /\ result' = NoResult
     /\ calls' = <<>>
     /\ UNCHANGED <<sshConnection, connectionConfig, isConnected, clients,
                    serialized, scope>>

\* stream.stderr.on('data')
onStderrData(e, data) ==
  LET x == execs[e]
  IN /\ x.chan = "open"
     /\ x.chunks < scope.chunks
     /\ execs' = Replace(e, [x EXCEPT !.errorOutput = @ \o data, !.chunks = @ + 1])
     /\ result' = NoResult
     /\ calls' = <<>>
     /\ UNCHANGED <<sshConnection, connectionConfig, isConnected, clients,
                    serialized, scope>>

ExecPayload(x, code) ==
  [host |-> connectionConfig.host, port |-> connectionConfig.port,
   username |-> connectionConfig.username, command |-> x.finalCommand,
   originalCommand |-> x.command.s, workingDirectory |-> x.workingDirectory,
   exitCode |-> code, stdout |-> x.output, stderr |-> x.errorOutput,
   success |-> (code = 0)]

\* stream.on('close').  With connectionConfig null the handler throws on
\* connectionConfig!.host before it reaches resolve.
onClose(e, code) ==
  LET x == execs[e]
      throws == connectionConfig = NullConfig
      settles == ~throws /\ x.promise = "pending"
  IN /\ x.chan = "open"
     /\ execs' = Replace(e, [x EXCEPT
                       !.chan = "closed",
                       !.timer = IF @ = "armed" THEN "cleared" ELSE @,
                       !.promise = IF settles THEN "resolved" ELSE @])
     /\ result' = IF settles THEN Content("exec", ExecPayload(x, code))
                  ELSE NoResult
     /\ calls' = <<>>
     /\ UNCHANGED <<sshConnection, connectionConfig, isConnected, clients,
                    serialized, scope>>

\* a setTimeout callback that also ends the connection of the execution
onTimeout_EndsConnection(e) ==
  LET x == execs[e]
  IN /\ x.timer = "armed"
     /\ execs' = Replace(e, [x EXCEPT
                       !.timer = "fired",
                       !.promise = IF @ = "pending" THEN "rejected" ELSE @])
     /\ result' = IF x.promise = "pending"
                  THEN McpError("exec", "InternalError",
                                "SSH command timed out after "
                                  \o NumberToString(x.timeout.n) \o "ms")
                  ELSE NoResult
     /\ clients' = [clients EXCEPT ![x.client].endCalls = @ + 1]
     /\ calls' = <<TransportCall("end", x.client, NoArg)>>
     /\ UNCHANGED <<sshConnection, connectionConfig, isConnected,
                    serialized, scope>>

\* the setTimeout callback
\* a setTimeout callback that fails every pending execution
onTimeout_RejectsAll(e) ==
  LET x == execs[e]
      rejected == [i \in ExecIds |->
                     [execs[i] EXCEPT !.promise = IF @ = "pending" THEN "rejected" ELSE @,
                                      !.timer = IF i = e THEN "fired" ELSE @]]
  IN /\ x.timer = "armed"
     /\ execs' = SelectSeq(rejected, LAMBDA y : ~Finished(y))
     /\ result' = IF x.promise = "pending"
                  THEN CallToolCatch("exec", McpError("exec", "InternalError",
                                "SSH command timed out after "
                                  \o NumberToString(x.timeout.n) \o "ms"))
                  ELSE NoResult
     /\ calls' = <<>>
     /\ UNCHANGED <<sshConnection, connectionConfig, isConnected, clients,
                    serialized, scope>>

onTimeout(e) ==
  LET x == execs[e]
  IN /\ x.timer = "armed"
     /\ execs' = Replace(e, [x EXCEPT
                       !.timer = "fired",
                       !.promise = IF @ = "pending" THEN "rejected" ELSE @])
     /\ result' = IF x.promise = "pending"
                  THEN CallToolCatch("exec", McpError("exec", "InternalError",
                                "SSH command timed out after "
                                  \o NumberToString(x.timeout.n) \o "ms"))
                  ELSE NoResult
     /\ calls' = <<>>
     /\ UNCHANGED <<sshConnection, connectionConfig, isConnected, clients,
                    serialized, scope>>

(***************************************************************************)
(* shutdown                                                                *)
(***************************************************************************)
shutdown ==
  /\ CanCall
  /\ IF sshConnection # 0
     THEN /\ clients' = [clients EXCEPT ![sshConnection].endCalls = @ + 1]
          /\ calls' = <<TransportCall("end", sshConnection, NoArg)>>
          /\ sshConnection' = 0
          /\ connectionConfig' = NullConfig
          /\ isConnected' = FALSE
     ELSE /\ calls' = <<>>
          /\ UNCHANGED <<sshConnection, connectionConfig, isConnected, clients>>
  /\ result' = Content("shutdown", NoPayload)
  /\ UNCHANGED <<execs, serialized, scope>>

(***************************************************************************)
(* The tool-call dispatcher: tools it does not know, and tools called      *)
(* without an arguments object.                                            *)
(***************************************************************************)
\* names a client may send that are none of the four tools
UnknownTools == {"ssh_reboot", "SSH_STATUS"}

\* the tools whose operation destructures its arguments, with the first
\* property the destructuring reads
DestructuringTools == {"ssh_connect", "ssh_exec"}
OpOf(name) == IF name = "ssh_connect" THEN "connect" ELSE "exec"
FirstProperty(name) == IF name = "ssh_connect" THEN "host" ELSE "command"

\* message of the TypeError of destructuring an undefined value
DestructureMessage(name) ==
  "Cannot destructure property '" \o FirstProperty(name) \o
  "' of 'args' as it is undefined."

\* default case of the switch: nothing is called
unknownTool(name) ==
  /\ CanCall
  /\ result' = CallToolCatch(name, McpError(name, "MethodNotFound",
                                            "Unknown tool: " \o name))
  /\ calls' = <<>>
  /\ UNCHANGED <<sshConnection, connectionConfig, isConnected, clients, execs,
                 serialized, scope>>

\* ssh_connect or ssh_exec without arguments: the destructuring in the first
\* statement of the operation throws before anything else is done
callWithoutArguments(name) ==
  /\ CanCall
  /\ result' = CallToolCatch(OpOf(name), JsError(DestructureMessage(name)))
  /\ calls' = <<>>
  /\ UNCHANGED <<sshConnection, connectionConfig, isConnected, clients, execs,
                 serialized, scope>>

(***************************************************************************)
(* The environment-configured server (index.ts): no session, every ssh_exec *)
(* call connects a Client of its own.  Each element of execs is one call    *)
(* together with its Client; clients stays empty.                           *)
(***************************************************************************)
\* the configuration loadSSHConfig returns: host, port, username, password
envSshConfig == SshConfigOf(PasswordArgs)

\* a call after `new Client()`, setTimeout and conn.connect
envNewExec(command, timeout, workingDirectory) ==
  [command |-> command, timeout |-> timeout, workingDirectory |-> workingDirectory,
   finalCommand |-> "", conn |-> "connecting", endCalls |-> 0,
   chan |-> "none", timer |-> "armed", promise |-> "pending",
   output |-> "", errorOutput |-> "", chunks |-> 0]

\* let finalCommand = command; if (workingDirectory) ...
envFinalCommandOf(command, workingDirectory) ==
  IF Truthy(workingDirectory)
  THEN "cd \"" \o workingDirectory.s \o "\" && " \o command.s
  ELSE command.s

envExecuteSSHCommand(args) ==
  LET command == args.command
      timeout == Default(args.timeout, Num(DefaultTimeout))
      workingDirectory == args.workingDirectory
      i == Len(execs) + 1
  IN /\ CanCall
     /\ UNCHANGED <<sshConnection, connectionConfig, isConnected, clients,
                    serialized, scope>>
     /\ IF ~Truthy(command) \/ command.t # "string"
        THEN /\ result' = CallToolCatch("exec", McpError("exec", "InvalidRequest",
                                   "Command is required and must be a string"))
             /\ calls' = <<>>
             /\ UNCHANGED execs
        ELSE /\ Len(execs) < scope.execs
             /\ execs' = Append(execs, envNewExec(command, timeout, workingDirectory))
             /\ result' = NoResult
             /\ calls' = <<TransportCall("new", i, NoArg),
                           TransportCall("connect", i, connectOptions(envSshConfig))>>

\* conn.on('ready'): composes the command and requests the channel.  A Client
\* ended during its handshake does not become ready.
envOnReady(i) ==
  LET x == execs[i]
      finalCommand == envFinalCommandOf(x.command, x.workingDirectory)
  IN /\ x.conn = "connecting"
     /\ x.endCalls = 0
     /\ execs' = [execs EXCEPT ![i] = [x EXCEPT !.conn = "ready",
                                                !.finalCommand = finalCommand,
                                                !.chan = "requested"]]
     /\ result' = NoResult
     /\ calls' = <<TransportCall("exec", i, finalCommand)>>
     /\ UNCHANGED <<sshConnection, connectionConfig, isConnected, clients,
                    serialized, scope>>

\* conn.on('error'): the countdown is cancelled and the call fails; end() is
\* not called
envOnError(i, reason) ==
  LET x == execs[i]
  IN /\ x.conn \in {"connecting", "ready"}
     /\ execs' = [execs EXCEPT ![i] = [x EXCEPT
                       !.conn = IF @ = "connecting" THEN "failed" ELSE "errored",
                       !.timer = IF @ = "armed" THEN "cleared" ELSE @,
                       !.promise = IF @ = "pending" THEN "rejected" ELSE @]]
     /\ result' = IF x.promise = "pending"
                  THEN CallToolCatch("exec", McpError("exec", "InternalError",
                                "SSH connection failed: " \o reason))
                  ELSE NoResult
     /\ calls' = <<>>
     /\ UNCHANGED <<sshConnection, connectionConfig, isConnected, clients,
                    serialized, scope>>

\* the callback of conn.exec
envExecCallback(i, err) ==
  LET x == execs[i]
  IN /\ x.chan = "requested"
     /\ UNCHANGED <<sshConnection, connectionConfig, isConnected, clients,
                    serialized, scope>>
     /\ IF err # ""
        THEN /\ execs' = [execs EXCEPT ![i] = [x EXCEPT
                             !.chan = "failed",
                             !.timer = IF @ = "armed" THEN "cleared" ELSE @,
                             !.endCalls = @ + 1,
                             !.promise = IF @ = "pending" THEN "rejected" ELSE @]]
             /\ calls' = <<TransportCall("end", i, NoArg)>>
             /\ result' = IF x.promise = "pending"
                          THEN CallToolCatch("exec", McpError("exec", "InternalError",
                                        "Failed to execute command: " \o err))
                          ELSE NoResult
        ELSE /\ execs' = [execs EXCEPT ![i] = [x EXCEPT !.chan = "open"]]
             /\ calls' = <<>>
             /\ result' = NoResult

envOnData(i, data) ==
  LET x == execs[i]
  IN /\ x.chan = "open"
     /\ x.chunks < scope.chunks
     /\ execs' = [execs EXCEPT ![i] = [x EXCEPT !.output = @ \o data,
                                                !.chunks = @ + 1]]
     /\ result' = NoResult
     /\ calls' = <<>>
     /\ UNCHANGED <<sshConnection, connectionConfig, isConnected, clients,
                    serialized, scope>>

envOnStderrData(i, data) ==
  LET x == execs[i]
  IN /\ x.chan = "open"
     /\ x.chunks < scope.chunks
     /\ execs' = [execs EXCEPT ![i] = [x EXCEPT !.errorOutput = @ \o data,
                                                !.chunks = @ + 1]]
     /\ result' = NoResult
     /\ calls' = <<>>
     /\ UNCHANGED <<sshConnection, connectionConfig, isConnected, clients,
                    serialized, scope>>

envExecPayload(x, code) ==
  [command |-> x.finalCommand, originalCommand |-> x.command.s,
   workingDirectory |-> x.workingDirectory, exitCode |-> code,
   stdout |-> x.output, stderr |-> x.errorOutput, success |-> (code = 0)]

\* stream.on('close'): cancels the countdown, ends the Client, resolves
envOnClose(i, code) ==
  LET x == execs[i]
  IN /\ x.chan = "open"
     /\ execs' = [execs EXCEPT ![i] = [x EXCEPT
                       !.chan = "closed",
                       !.timer = IF @ = "armed" THEN "cleared" ELSE @,
                       !.endCalls = @ + 1,
                       !.promise = IF @ = "pending" THEN "resolved" ELSE @]]
     /\ result' = IF x.promise = "pending"
                  THEN Content("exec", envExecPayload(x, code))
                  ELSE NoResult
     /\ calls' = <<TransportCall("end", i, NoArg)>>
     /\ UNCHANGED <<sshConnection, connectionConfig, isConnected, clients,
                    serialized, scope>>

\* a setTimeout callback that leaves the Client open, as the session server does
envOnTimeout_KeepsConnection(i) ==
  LET x == execs[i]
  IN /\ x.timer = "armed"
     /\ execs' = [execs EXCEPT ![i] = [x EXCEPT
                       !.timer = "fired",
                       !.promise = IF @ = "pending" THEN "rejected" ELSE @]]
     /\ result' = IF x.promise = "pending"
                  THEN CallToolCatch("exec", McpError("exec", "InternalError",
                                "SSH command timed out after "
                                  \o NumberToString(x.timeout.n) \o "ms"))
                  ELSE NoResult
     /\ calls' = <<>>
     /\ UNCHANGED <<sshConnection, connectionConfig, isConnected, clients,
                    serialized, scope>>

\* the setTimeout callback: ends the Client and fails the call
envOnTimeout(i) ==
  LET x == execs[i]
  IN /\ x.timer = "armed"
     /\ execs' = [execs EXCEPT ![i] = [x EXCEPT
                       !.timer = "fired",
                       !.endCalls = @ + 1,
                       !.promise = IF @ = "pending" THEN "rejected" ELSE @]]
     /\ result' = IF x.promise = "pending"
                  THEN CallToolCatch("exec", McpError("exec", "InternalError",
                                "SSH command timed out after "
                                  \o NumberToString(x.timeout.n) \o "ms"))
                  ELSE NoResult
     /\ calls' = <<TransportCall("end", i, NoArg)>>
     /\ UNCHANGED <<sshConnection, connectionConfig, isConnected, clients,
                    serialized, scope>>

envInfoPayload ==
  [host |-> envSshConfig.host, port |-> envSshConfig.port,
   username |-> envSshConfig.username,
   authMethod |-> Str(authMethod(envSshConfig)),
   keyConfigured |-> Truthy(envSshConfig.privateKey),
   passwordConfigured |-> Truthy(envSshConfig.password)]

getSSHInfo ==
  /\ CanCall
  /\ result' = Content("info", envInfoPayload)
  /\ calls' = <<>>
  /\ UNCHANGED <<sshConnection, connectionConfig, isConnected, clients, execs,
                 serialized, scope>>

(***************************************************************************)
(* Specifications.                                                         *)
(***************************************************************************)
InitState ==
  /\ sshConnection = 0
  /\ connectionConfig = NullConfig
  /\ isConnected = FALSE
  /\ clients = <<>>
  /\ execs = <<>>
  /\ result = NoResult
  /\ calls = <<>>

Init == InitState /\ serialized = TRUE /\ scope = SessionScope

InitConc == InitState /\ serialized = FALSE /\ scope = SessionScope

InitReconnect == InitState /\ serialized = TRUE /\ scope = ReconnectScope

InitArgs ==
  /\ InitState
  /\ serialized = TRUE
  /\ \E args \in AllConnectArgs : scope = ArgScope(args)

InitExec == InitState /\ serialized = TRUE /\ scope = ExecScope

InitStream == InitState /\ serialized = TRUE /\ scope = StreamScope

InitIsolation == InitState /\ serialized = FALSE /\ scope = IsolationScope

InitEnv == InitState /\ serialized = FALSE /\ scope = EnvScope

InitOverlap == InitState /\ serialized = FALSE /\ scope = OverlapScope

InitExecConc == InitState /\ serialized = FALSE /\ scope = ExecConcScope

\* the tool calls and the events of the clients
Next ==
  \/ \E args \in scope.connectArgs : connectToSSH(args)
  \/ \E c \in ClientIds : onReady(c)
  \/ \E c \in ClientIds, reason \in Reasons : onError(c, reason)
  \/ \E c \in ClientIds : onEnd(c)
  \/ disconnectFromSSH
  \/ getSSHStatus
  \/ shutdown
  \/ \E args \in ScopedExecArgs : executeSSHCommand(args)

\* ... and the callbacks of the executions in flight
ExecNext ==
  \/ Next
  \/ \E e \in ExecIds, err \in Reasons \cup {""} : execCallback(e, err)
  \/ \E e \in ExecIds : onData(e, StdoutChunk(execs[e]))
  \/ \E e \in ExecIds : onStderrData(e, StderrChunk(execs[e]))
  \/ \E e \in ExecIds, code \in ExitCodes : onClose(e, code)
  \/ \E e \in ExecIds : onTimeout(e)

\* the calls of the session model, and the calls the dispatcher itself fails
DispatchNext ==
  \/ Next
  \/ \E name \in UnknownTools : unknownTool(name)
  \/ \E name \in DestructuringTools : callWithoutArguments(name)

\* the calls and callbacks of the environment-configured server
EnvNext ==
  \/ \E args \in ScopedExecArgs : envExecuteSSHCommand(args)
  \/ getSSHInfo
  \/ \E i \in ExecIds : envOnReady(i)
  \/ \E i \in ExecIds, reason \in Reasons : envOnError(i, reason)
  \/ \E i \in ExecIds, err \in Reasons \cup {""} : envExecCallback(i, err)
  \/ \E i \in ExecIds : envOnData(i, StdoutChunk(execs[i]))
  \/ \E i \in ExecIds : envOnStderrData(i, StderrChunk(execs[i]))
  \/ \E i \in ExecIds, code \in ExitCodes : envOnClose(i, code)
  \/ \E i \in ExecIds : envOnTimeout(i)

\* session model, the dispatcher runs one tool call to completion before the next
Spec == Init /\ [][Next]_vars

\* session model, tool calls overlap (the request handler is async)
SpecConc == InitConc /\ [][Next]_vars

\* reconnect model: the session model with a connect after a replacement
SpecReconnect == InitReconnect /\ [][Next]_vars

\* argument model, one tool call at a time
SpecArgs == InitArgs /\ [][Next]_vars

\* execution model, one tool call at a time
SpecDispatch == Init /\ [][DispatchNext]_vars

\* execution model
SpecExec == InitExec /\ [][ExecNext]_vars

\* execution model, tool calls overlap
SpecStream == InitStream /\ [][ExecNext]_vars

SpecIsolation == InitIsolation /\ [][ExecNext]_vars

SpecEnv == InitEnv /\ [][EnvNext]_vars

SpecOverlap == InitOverlap /\ [][ExecNext]_vars

SpecExecConc == InitExecConc /\ [][ExecNext]_vars

(***************************************************************************)
(* Properties.                                                             *)
(***************************************************************************)
Connected == isConnected
Disconnected == ~isConnected /\ sshConnection = 0

HasCall(log, name) == \E i \in 1..Len(log) : log[i].call = name

EndOf(c) == TransportCall("end", c, NoArg)

\* C1: at most one connection handle created by the server is live (created,
\* not ended by the server, not terminated by the remote side) in every state
\* reachable by tool calls run one at a time and transport events.
C1_AtMostOneLiveHandle == Cardinality(LiveClients) <= 1

C3_StaleEventsIgnored ==
  /\ [](Connected => (sshConnection # 0 /\ Live(sshConnection)))
  /\ [][ \A c \in ClientIds :
           ( /\ clients[c].phase = "ready"
             /\ clients'[c].phase \in {"ended", "errored"}
             /\ sshConnection # c
             /\ sshConnection # 0 ) =>
             UNCHANGED <<sshConnection, connectionConfig, isConnected>>
       ]_vars

\* C4: disconnect in the Connected state ends the handle, clears the config,
\* leaves the session Disconnected and returns "disconnected"; in the
\* Disconnected state it returns "no_connection" with a message, as a result;
\* a disconnect right after one that returned "disconnected" returns
\* "no_connection"; status afterwards reports connected=false.
C4_IdempotentDisconnect ==
  [][ result'.op = "disconnect" =>
        /\ result'.kind = "result"
        /\ Connected =>
             /\ result'.payload.status = "disconnected"
             /\ calls' = <<EndOf(sshConnection)>>
             /\ clients'[sshConnection].endCalls = clients[sshConnection].endCalls + 1
             /\ connectionConfig' = NullConfig
        /\ ~Connected =>
             /\ result'.payload.status = "no_connection"
             /\ result'.payload.message # ""
             /\ calls' = <<>>
             /\ UNCHANGED clients
        /\ (result.op = "disconnect" /\ result.payload.status = "disconnected") =>
             result'.payload.status = "no_connection"
        /\ Disconnected'
        /\ ~StatusPayload'.connected
    ]_vars

\* C4 witness: a connection was disconnected and a further disconnect
\* returned "no_connection"
C4_Witness ==
  /\ result.op = "disconnect"
  /\ result.payload.status = "no_connection"
  /\ \E c \in ClientIds : clients[c].phase = "ready" /\ clients[c].endCalls = 1

\* C5: when the installed handle emits end without a disconnect call, the
\* session becomes Disconnected and status reports connected=false with null
\* host and username.
C5_UnsolicitedEnd ==
  [][ \A c \in ClientIds :
        ( /\ clients[c].phase = "ready" /\ clients'[c].phase = "ended"
          /\ sshConnection = c /\ Connected ) =>
          /\ Disconnected'
          /\ ~StatusPayload'.connected
          /\ StatusPayload'.host = Null
          /\ StatusPayload'.username = Null
    ]_vars

\* C5 witness: status was called after a handle nobody ended emitted end
C5_Witness ==
  /\ \E c \in ClientIds : clients[c].phase = "ended" /\ clients[c].endCalls = 0
  /\ result.op = "status"
  /\ ~result.payload.connected

\* C6: a status that reports connected=false reports null host, port,
\* username and authMethod, in every reachable state.
C6_DisconnectedStatusIsNull ==
  ~StatusPayload.connected =>
    /\ StatusPayload.host = Null
    /\ StatusPayload.port = Null
    /\ StatusPayload.username = Null
    /\ StatusPayload.authMethod = Null

\* C7: when the transport reports an error for a connect attempt, the call
\* fails with "SSH connection failed: <reason>" and the session is
\* Disconnected afterwards, with or without a connection before the call.
C7_FailedConnect ==
  [][ \A c \in ClientIds :
        (clients[c].phase = "connecting" /\ clients'[c].phase = "failed") =>
          /\ \E reason \in Reasons :
               result' = McpError("connect", "InternalError",
                                  "SSH connection failed: " \o reason)
          /\ clients'[c].promise = "rejected"
          /\ Disconnected'
          /\ connectionConfig' = NullConfig
          /\ ~StatusPayload'.connected
    ]_vars

\* C7 witness: the attempt that replaced an earlier connection failed
C7_Witness ==
  /\ Len(clients) >= 2
  /\ clients[1].endCalls = 1
  /\ clients[2].phase = "failed"
  /\ result.kind = "error" /\ result.op = "connect"
  /\ result.message = "SSH connection failed: ECONNREFUSED"

Absent(v) == v = Undef \/ v = Str("")

\* C8: a connect with an empty or missing host, an empty or missing username,
\* or neither password nor privateKey fails with an InvalidRequest error and
\* creates and connects no transport client; with either credential or both
\* it is accepted.
C8_ConnectValidation ==
  [][ \A args \in scope.connectArgs :
        connectToSSH(args) =>
          IF \/ Absent(args.host)
             \/ Absent(args.username)
             \/ Absent(args.password) /\ Absent(args.privateKey)
          THEN /\ result'.kind = "error"
               /\ result'.code = "InvalidRequest"
               /\ Len(clients') = Len(clients)
               /\ ~HasCall(calls', "new")
               /\ ~HasCall(calls', "connect")
          ELSE /\ result'.kind # "error"
               /\ Len(clients') = Len(clients) + 1
               /\ HasCall(calls', "new")
               /\ HasCall(calls', "connect")
    ]_vars

\* C8 witness: a connect with host and username but no credential was rejected
C8_Witness ==
  /\ result.op = "connect"
  /\ result.code = "InvalidRequest"
  /\ clients = <<>>
  /\ \E args \in scope.connectArgs :
       /\ ~Absent(args.host) /\ ~Absent(args.username)
       /\ Absent(args.password) /\ Absent(args.privateKey)

\* C9: after a connect call returned successfully, status reports
\* connected=true and the host, port, username and authMethod of the connect
\* summary.
C9_StatusMatchesSummary ==
  (result.op = "connect" /\ result.kind = "result") =>
    /\ StatusPayload.connected
    /\ StatusPayload.host = result.payload.host
    /\ StatusPayload.port = result.payload.port
    /\ StatusPayload.username = result.payload.username
    /\ StatusPayload.authMethod = result.payload.authMethod

NotConnectedMessage == "Not connected to SSH server. Use ssh_connect first."

\* C10 as stated: execute while Disconnected fails with an InvalidRequest
\* error that says to connect first, for every command argument, and opens no
\* channel.
C10_NotConnectedGuard_Original ==
  [][ (result'.op = "exec" /\ ~Connected) =>
        /\ result' = McpError("exec", "InvalidRequest", NotConnectedMessage)
        /\ ~HasCall(calls', "exec")
    ]_vars

\* C10 amended: execute while Disconnected fails with an InvalidRequest error
\* and opens no channel for every command argument; the error says to connect
\* first when the command is a non-empty string, and that a command is
\* required otherwise.
C10_NotConnectedGuard ==
  [][ ~Connected =>
        /\ ~HasCall(calls', "exec")
        /\ Len(execs') <= Len(execs)
        /\ result'.op = "exec" =>
             \A args \in AllExecArgs :
               executeSSHCommand(args) =>
               /\ result'.kind = "error"
               /\ result'.code = "InvalidRequest"
               /\ result'.message =
                    IF args.command.t = "string" /\ args.command.s # ""
                    THEN NotConnectedMessage
                    ELSE "Command is required and must be a string"
               /\ UNCHANGED execs
    ]_vars

\* C10 witness: an execute of a valid command was refused for want of a
\* connection
C10_Witness ==
  /\ result.op = "exec"
  /\ result.message = NotConnectedMessage
  /\ ~isConnected

SessionState == <<sshConnection, connectionConfig, isConnected>>

\* the characters the specification allows in a working directory
AllowedPathChars ==
  {"a", "t", "Z", "0", "9", "/", ".", "_", "-"}

ValidCommand(command) == command.t = "string" /\ command.s # ""

BadWorkingDirectory(wd) ==
  /\ wd.t = "string"
  /\ \E i \in 1..Len(wd.c) : wd.c[i] \notin AllowedPathChars

\* the execute arguments the specification rejects
RejectedExecArgs ==
  {args \in AllExecArgs :
     ~ValidCommand(args.command) \/ BadWorkingDirectory(args.workingDirectory)}

\* C11: execute with an empty or non-string command, or with a working
\* directory that has a character outside letters, digits, '/', '.', '_' and
\* '-', fails with an InvalidRequest error and calls exec on no handle; the
\* handle, the config, the flag and the clients are unchanged.  Every exec
\* that is called carries a valid command and no such working directory.
C11_ValidationFirst ==
  [][ /\ result'.op = "exec" =>
           \A args \in RejectedExecArgs :
             executeSSHCommand(args) =>
               /\ result'.kind = "error"
               /\ result'.code = "InvalidRequest"
               /\ calls' = <<>>
               /\ UNCHANGED SessionState
               /\ UNCHANGED clients
      /\ HasCall(calls', "exec") =>
           \E args \in AllExecArgs :
             /\ ValidCommand(args.command)
             /\ ~BadWorkingDirectory(args.workingDirectory)
             /\ calls'[1].arg = finalCommandOf(args.command, args.workingDirectory)
    ]_vars

\* C11 witness: on an established connection an execute with ';' in the
\* working directory was refused
C11_Witness ==
  /\ result.op = "exec"
  /\ result.code = "InvalidRequest"
  /\ result.message = "Invalid working directory format"
  /\ Connected /\ sshConnection # 0

\* the string the specification sends for a command and a working directory
\* (a working directory is supplied when it is a non-empty string)
ComposedCommand(command, wd) ==
  IF wd.t = "string" /\ wd.s # ""
  THEN "cd \"" \o wd.s \o "\" && " \o command.s
  ELSE command.s

\* C12: for every accepted execute call the string passed to exec is
\* cd "<workingDirectory>" && <command> when a working directory is supplied
\* and <command> otherwise; the command field of the result is the string
\* sent and originalCommand is the command argument.
C12_Composition ==
  [][ /\ HasCall(calls', "exec") =>
           \A args \in AllExecArgs :
             executeSSHCommand(args) =>
               /\ calls' = <<TransportCall("exec", sshConnection,
                               ComposedCommand(args.command, args.workingDirectory))>>
               /\ execs'[Len(execs')].finalCommand = calls'[1].arg
               /\ execs'[Len(execs')].command = args.command
               /\ execs'[Len(execs')].workingDirectory = args.workingDirectory
               /\ finalCommandOf(args.command, PathStr(<<>>)) = args.command.s
      /\ (result'.op = "exec" /\ result'.kind = "result") =>
           \E e \in ExecIds :
             /\ execs[e].chan = "open"
             /\ result'.payload.command = execs[e].finalCommand
             /\ result'.payload.command =
                  ComposedCommand(execs[e].command, execs[e].workingDirectory)
             /\ result'.payload.originalCommand = execs[e].command.s
             /\ result'.payload.workingDirectory = execs[e].workingDirectory
    ]_vars

\* C12 witness: ls in /tmp was run as cd "/t" && ls and its result returned
C12_Witness ==
  /\ result.op = "exec" /\ result.kind = "result"
  /\ result.payload.command = "cd \"/t\" && ls"
  /\ result.payload.originalCommand = "ls"

\* an execution whose call is pending and whose countdown has not elapsed
BeforeTimeout(x) == x.promise = "pending" /\ x.timer = "armed"

\* C13: when the channel closes with exit code c before the timeout, execute
\* returns a result, not an error, with exitCode = c and success = TRUE
\* exactly when c is 0.
C13_ExitCode ==
  [][ \A e \in ExecIds, code \in ExitCodes :
        ( /\ execs[e].chan = "open"
          /\ BeforeTimeout(execs[e])
          /\ onClose(e, code) ) =>
          /\ result'.op = "exec"
          /\ result'.kind = "result"
          /\ result'.payload.exitCode = code
          /\ result'.payload.success = (code = 0)
    ]_vars

TimeoutError(x) ==
  McpError("exec", "InternalError",
           "SSH command timed out after " \o NumberToString(x.timeout.n) \o "ms")

\* C14: if the countdown (30000 ms by default) elapses before the channel
\* closes, the call fails with the timeout error and later data or close
\* events produce no result; if the channel closes first the call returns a
\* result and its countdown is cancelled; a call has exactly one outcome: the
\* promise settles once, and while it is pending its countdown is armed.
C14_Timeout ==
  /\ [](\A e \in ExecIds :
          /\ execs[e].promise = "pending" => execs[e].timer = "armed"
          /\ execs[e].timer = "fired" => execs[e].promise = "rejected")
  /\ [][ \A e \in ExecIds :
           /\ (BeforeTimeout(execs[e]) /\ onTimeout(e)) =>
                /\ result' = TimeoutError(execs[e])
                /\ execs[e].timeout.n = DefaultTimeout
           /\ \A code \in ExitCodes :
                (execs[e].chan = "open" /\ onClose(e, code)) =>
                  IF BeforeTimeout(execs[e])
                  THEN /\ result'.kind = "result"
                       /\ Len(execs') = Len(execs) - 1
                  ELSE result' = NoResult
           /\ (execs[e].promise # "pending" /\ Len(execs') = Len(execs)) =>
                execs'[e].promise = execs[e].promise
       ]_vars

\* C15: a step of an execute call (its start, the exec callback, a data
\* chunk, the close of its channel, its timeout), whatever its outcome, leaves
\* the installed handle, the config and the connected flag unchanged and calls
\* end() on no handle, so a connection that served an execute still serves
\* the next.
C15_ExecuteKeepsConnection ==
  [][ (execs' # execs \/ result'.op = "exec") =>
        /\ UNCHANGED SessionState
        /\ UNCHANGED clients
        /\ ~HasCall(calls', "end")
        /\ \A i \in 1..Len(calls') : calls'[i].call = "exec"
    ]_vars

\* C15 witness: an execute timed out and the connection it ran on is still
\* installed, connected and not ended
C15_Witness ==
  /\ result.op = "exec" /\ result.kind = "error" /\ result.code = "InternalError"
  /\ \E e \in ExecIds : execs[e].timer = "fired"
  /\ Connected /\ sshConnection # 0
  /\ clients[sshConnection].endCalls = 0
  /\ clients[sshConnection].phase = "ready"

\* C16: the host, port and username of an execute result are those of the
\* connection the command ran on, whatever happened to the session between
\* the start of the execute and the close of its channel.
C16_Attribution ==
  [][ \A e \in ExecIds, code \in ExitCodes :
        (onClose(e, code) /\ result'.kind = "result") =>
          LET cfg == clients[execs[e].client].cfg
          IN /\ result'.payload.host = cfg.host
             /\ result'.payload.port = cfg.port
             /\ result'.payload.username = cfg.username
    ]_vars

\* C17: an execute call that passed validation completes no later than the
\* expiry of its timeout, under every interleaving with disconnects, connects
\* and connection events: in every reachable state a call that is still
\* pending has its countdown armed, so that the countdown settles it when
\* nothing else does.
C17_BoundedExecute ==
  \A e \in ExecIds :
    execs[e].promise = "pending" => execs[e].timer = "armed"

\* the method the specification infers: "key" whenever a private key is
\* supplied, "password" otherwise
InferredMethod(config) ==
  IF ~Absent(config.privateKey) THEN Str("key") ELSE Str("password")

\* C18: the summary of a successful connect reports authMethod "key" whenever
\* a privateKey is supplied, also along with a password, and "password"
\* otherwise; status reports the same method for the stored config and null
\* when there is none.
C18_AuthMethod ==
  /\ [](StatusPayload.authMethod =
          IF connectionConfig = NullConfig THEN Null
          ELSE InferredMethod(connectionConfig))
  /\ [][ \A c \in ClientIds :
           (clients[c].phase = "connecting" /\ clients'[c].phase = "ready") =>
             /\ result'.payload.authMethod = InferredMethod(clients[c].cfg)
             /\ StatusPayload'.authMethod = result'.payload.authMethod
       ]_vars

\* C18 witness: a connect with both a private key and a password reported "key"
C18_Witness ==
  /\ result.op = "connect" /\ result.kind = "result"
  /\ result.payload.authMethod = Str("key")
  /\ \E args \in scope.connectArgs :
       ~Absent(args.privateKey) /\ ~Absent(args.password)
  /\ StatusPayload.authMethod = Str("key")

OnceInstalled(c) == clients[c].phase \in {"ready", "errored", "ended"}

\* C20: in every reachable state every handle that was once installed and is
\* no longer the installed one has had end() called on it or has itself
\* emitted end.
C20_NoLeak ==
  \A c \in ClientIds :
    (OnceInstalled(c) /\ sshConnection # c) =>
      \/ clients[c].endCalls >= 1
      \/ clients[c].phase = "ended"

\* C21: when the transport rejects the exec request of a pending execute, the
\* call fails at once with "Failed to execute command: <reason>", its
\* countdown is cancelled (nothing of the call is left that could raise a
\* timeout error or produce a result) and the handle, the config, the flag
\* and the clients are unchanged.
C21_ChannelOpenFailure ==
  [][ \A e \in ExecIds :
        (execs[e].chan = "requested" /\ BeforeTimeout(execs[e])) =>
          \A err \in Reasons :
            execCallback(e, err) =>
              /\ result' = McpError("exec", "InternalError",
                                    "Failed to execute command: " \o err)
              /\ execs' = SubSeq(execs, 1, e - 1) \o SubSeq(execs, e + 1, Len(execs))
              /\ calls' = <<>>
              /\ UNCHANGED SessionState
              /\ UNCHANGED clients
    ]_vars

\* C21 witness: the exec request of an execute on an established connection
\* was rejected and nothing of the call is left
C21_Witness ==
  /\ result = McpError("exec", "InternalError",
                       "Failed to execute command: ECONNREFUSED")
  /\ execs = <<>>
  /\ Connected /\ sshConnection # 0

\* the failures the operations of the session raise as typed errors
ConnectFailed(reason) ==
  McpError("connect", "InternalError", "SSH connection failed: " \o reason)

\* C22: a call of an unknown tool fails with MethodNotFound "Unknown tool:
\* <name>" and changes nothing of the session; a typed failure of an
\* operation (rejected connect arguments, a failed connection attempt, a
\* rejected execute) reaches the caller as the operation raised it; a failure
\* that is not typed (a tool called without arguments) reaches the caller as
\* InternalError "Tool execution failed: <original message>".
C22_DispatchErrors ==
  [][ /\ \A name \in UnknownTools :
           unknownTool(name) =>
             /\ result' = McpError(name, "MethodNotFound", "Unknown tool: " \o name)
             /\ UNCHANGED SessionState
             /\ calls' = <<>>
      /\ result'.op = "connect" =>
           /\ \A args \in scope.connectArgs :
                (connectToSSH(args) /\ validateSSHConfig(SshConfigOf(args)) # NoError)
                  => result' = validateSSHConfig(SshConfigOf(args))
           /\ \A c \in ClientIds, reason \in Reasons :
                (clients[c].promise = "pending" /\ onError(c, reason))
                  => result' = ConnectFailed(reason)
      /\ result'.op = "exec" =>
           \A args \in AllExecArgs :
             (executeSSHCommand(args) /\ result' # NoResult) =>
               /\ result'.code = "InvalidRequest"
               /\ result'.message \in
                    {"Command is required and must be a string", NotConnectedMessage}
      /\ \A name \in DestructuringTools :
           callWithoutArguments(name) =>
             /\ result' = McpError(OpOf(name), "InternalError",
                                   "Tool execution failed: " \o DestructureMessage(name))
             /\ UNCHANGED SessionState
    ]_vars

\* C22 witness: a call of an unknown tool has failed while a connection was
\* established
C22_Witness ==
  /\ Connected /\ sshConnection # 0
  /\ result = McpError("ssh_reboot", "MethodNotFound", "Unknown tool: ssh_reboot")

\* a call is in flight: a connect attempt or an execute has not settled
ConnectInFlight == \E c \in ClientIds : clients[c].promise = "pending"
ExecInFlight(e) == execs[e].promise = "pending"

\* the connection an execute runs on is the installed one and nothing has
\* ended it
Intact(e) ==
  /\ execs[e].client = sshConnection
  /\ clients[sshConnection].phase = "ready"
  /\ clients[sshConnection].endCalls = 0

\* C23: a status call can be made in every reachable state, also while a
\* connect attempt or an execute is in flight; it returns a result, leaves the
\* handle, the config and the flag (and the clients and executions) as they
\* are and calls nothing on the transport; while an execute is in flight on
\* an intact connection it reports connected = true.
C23_StatusPureRead ==
  /\ [](ENABLED getSSHStatus)
  /\ [][ result'.op = "status" =>
           /\ result'.kind = "result"
           /\ result' = Content("status", StatusPayload)
           /\ UNCHANGED SessionState
           /\ UNCHANGED <<clients, execs>>
           /\ calls' = <<>>
           /\ \A e \in ExecIds :
                (ExecInFlight(e) /\ Intact(e)) => result'.payload.connected = TRUE
      ]_vars

\* C23 witness: status was read while an execute was in flight on an intact
\* connection
C23_Witness ==
  /\ result.op = "status"
  /\ \E e \in ExecIds : ExecInFlight(e) /\ Intact(e) /\ execs[e].chan = "open"
  /\ result.payload.connected = TRUE

\* C24: a shutdown leaves the handle null, the config null and the flag
\* false, from any state; an installed handle has end() called on it once by
\* the shutdown and nothing else is called; in the Disconnected state (handle
\* null, flag false) shutdown changes nothing, so that a second shutdown
\* changes nothing after the first.
C24_ShutdownCleanup ==
  [][ result'.op = "shutdown" =>
        /\ sshConnection' = 0
        /\ connectionConfig' = NullConfig
        /\ ~isConnected'
        /\ sshConnection # 0 =>
             /\ clients' = [clients EXCEPT ![sshConnection].endCalls = @ + 1]
             /\ calls' = <<TransportCall("end", sshConnection, NoArg)>>
        /\ Disconnected =>
             /\ UNCHANGED SessionState
             /\ UNCHANGED clients
             /\ calls' = <<>>
    ]_vars

\* the pairs (stdout, stderr) that n chunks can leave behind: every chunk in
\* the buffer of its own stream, once, in arrival order
RECURSIVE Splits(_)
Splits(n) ==
  IF n = 0 THEN {<<"", "">>}
  ELSE {<<p[1] \o "o" \o NumberToString(n), p[2]>> : p \in Splits(n - 1)}
         \cup {<<p[1], p[2] \o "e" \o NumberToString(n)>> : p \in Splits(n - 1)}

\* C25: the two buffers of an execution hold exactly the chunks delivered so
\* far, each in the buffer of its own stream, once and in arrival order; a
\* result is produced by the close event of a call that has not timed out
\* and carries the buffers as they are at that event, so that chunks
\* arriving after the timeout appear in no result.
C25_StreamAccumulation ==
  /\ [](\A e \in ExecIds :
          <<execs[e].output, execs[e].errorOutput>> \in Splits(execs[e].chunks))
  /\ [][ (result'.op = "exec" /\ result'.kind = "result") =>
           \E e \in ExecIds :
             /\ execs[e].chan = "open"
             /\ BeforeTimeout(execs[e])
             /\ result'.payload.stdout = execs[e].output
             /\ result'.payload.stderr = execs[e].errorOutput
             /\ <<result'.payload.stdout, result'.payload.stderr>>
                  \in Splits(execs[e].chunks)
      ]_vars

\* C25 witness: a result with a chunk of stderr that arrived before a chunk
\* of stdout
C25_Witness ==
  /\ result.op = "exec" /\ result.kind = "result"
  /\ result.payload.stdout = "o2"
  /\ result.payload.stderr = "e1"

\* the handles that became ready and that nothing has ended: no end() call,
\* no end or error event
OpenHandles ==
  {c \in ClientIds : clients[c].phase = "ready" /\ clients[c].endCalls = 0}

\* C26: once no connect attempt is in flight any more and every attempt has
\* become ready, at most one handle is open and the session state refers to
\* it, whether or not the connect calls overlapped.
C26_OverlappingConnects ==
  (~ConnectInFlight /\ \A c \in ClientIds : clients[c].phase = "ready") =>
    /\ Cardinality(OpenHandles) <= 1
    /\ \A c \in OpenHandles : sshConnection = c

\* C27: in the state a disconnect call has returned in, the session is
\* Disconnected, and the next thing to happen leaves it Disconnected: no
\* connect issued after the disconnect can have succeeded yet, and a connect
\* attempt that was in flight during the disconnect installs no handle.
C27_DisconnectWins ==
  /\ [](result.op = "disconnect" => Disconnected)
  /\ [][ result.op = "disconnect" =>
           /\ Disconnected'
           /\ \A c \in ClientIds :
                clients[c].phase = "connecting" => sshConnection' # c
      ]_vars

\* the executions without the one at e
Without(e) == SubSeq(execs, 1, e - 1) \o SubSeq(execs, e + 1, Len(execs))

\* two execute calls are in flight on the installed connection
TwoInFlight ==
  \E d, e \in ExecIds :
    /\ d # e
    /\ ExecInFlight(d) /\ ExecInFlight(e)
    /\ execs[d].client = sshConnection /\ execs[e].client = sshConnection

\* C28: while two execute calls are in flight on the installed connection,
\* every callback and every call touches the record of at most one
\* execution (its buffers, its countdown, its promise) and leaves every other
\* one as it is; a result comes from the close of one execution and carries
\* the buffers of that execution and an exit code of its close event, and a
\* timeout error the timeout of the execution whose countdown fired.
C28_ExecuteIsolation ==
  [][ (TwoInFlight /\ execs' # execs) =>
        \/ \E x \in {execs'[Len(execs')]} : execs' = Append(execs, x)
        \/ \E e \in ExecIds :
             /\ \/ execs' = Without(e)
                \/ /\ Len(execs') = Len(execs)
                   /\ execs' = [execs EXCEPT ![e] = execs'[e]]
             /\ (result'.op = "exec" /\ result'.kind = "result") =>
                  /\ execs' = Without(e)
                  /\ BeforeTimeout(execs[e])
                  /\ result'.payload.stdout = execs[e].output
                  /\ result'.payload.stderr = execs[e].errorOutput
                  /\ result'.payload.exitCode \in ExitCodes
                  /\ result'.payload.success = (result'.payload.exitCode = 0)
             /\ (result'.op = "exec" /\ result'.kind = "error") =>
                  /\ execs[e].promise = "pending"
                  /\ \/ execs[e].chan = "requested"
                     \/ execs[e].timer = "armed"
    ]_vars

\* C28 witness: of two executions in flight on the installed connection one
\* has timed out and the other has received output and is still pending with
\* its countdown running
C28_Witness ==
  /\ Len(execs) = 2
  /\ \E d, e \in ExecIds :
       /\ execs[d].timer = "fired" /\ execs[d].promise = "rejected"
       /\ execs[e].output = "o1" /\ BeforeTimeout(execs[e])
       /\ execs[d].client = sshConnection /\ execs[e].client = sshConnection
  /\ Connected

\* the options of the connect call in a log of transport calls
PassedOptions(log) ==
  log[CHOOSE i \in 1..Len(log) : log[i].call = "connect"].arg

\* C29: the options of every connect call on the transport carry the host,
\* the port (22 when omitted) and the username of the arguments; with a
\* private key they carry the key, the passphrase if one is supplied, and no
\* password; without one they carry the password and neither key nor
\* passphrase; and the summary of the connect reports "key" exactly when the
\* key was passed.
C29_Credentials ==
  [][ /\ HasCall(calls', "connect") =>
           \A args \in scope.connectArgs :
             connectToSSH(args) =>
               LET o == PassedOptions(calls')
               IN /\ o.host = args.host
                  /\ o.port = IF args.port = Undef THEN Num(22) ELSE args.port
                  /\ o.username = args.username
                  /\ IF ~Absent(args.privateKey)
                     THEN /\ o.privateKey = args.privateKey
                          /\ o.passphrase = IF Absent(args.passphrase) THEN Undef
                                            ELSE args.passphrase
                          /\ o.password = Undef
                     ELSE /\ o.password = args.password
                          /\ o.privateKey = Undef
                          /\ o.passphrase = Undef
      /\ \A c \in ClientIds :
           (clients[c].phase = "connecting" /\ clients'[c].phase = "ready") =>
             \A args \in scope.connectArgs :
               (result'.payload.authMethod = Str("key")) <=> ~Absent(args.privateKey)
    ]_vars

\* C29 witness: a connect with a private key, a passphrase and a password
\* has passed the key and the passphrase to the transport, and no password
C29_Witness ==
  /\ HasCall(calls, "connect")
  /\ PassedOptions(calls).privateKey = Str("key")
  /\ PassedOptions(calls).passphrase = Str("pp")
  /\ PassedOptions(calls).password = Undef
  /\ \E args \in scope.connectArgs : args.password = Str("pw")

\* C30: in the environment-configured server every ssh_exec call that
\* passes validation creates and connects a Client of its own; when the call
\* has completed through the close of its channel, the failure to open its
\* channel or its timeout (also one that fires while the Client is still
\* connecting), end() has been called on that Client; after any completion
\* the Client has been ended or has failed; and a call settles once: only a
\* pending call produces an outcome and a settled call stays as it is.
C30_EnvVariant ==
  /\ [](\A i \in ExecIds :
          LET x == execs[i]
          IN /\ x.promise = "resolved" => (x.chan = "closed" /\ x.endCalls >= 1)
             /\ (x.promise = "rejected" /\ x.conn \notin {"failed", "errored"})
                  => x.endCalls >= 1
             /\ x.chan = "failed" => x.endCalls >= 1
             /\ x.timer = "fired" => x.endCalls >= 1
             /\ x.promise = "pending" => x.timer = "armed")
  /\ [][ /\ Len(execs') = Len(execs) + 1 =>
              /\ calls' = <<TransportCall("new", Len(execs'), NoArg),
                            TransportCall("connect", Len(execs'),
                                          PassedOptions(calls'))>>
              /\ execs'[Len(execs')].endCalls = 0
         /\ \A i \in ExecIds :
              /\ execs[i].promise # "pending" => execs'[i].promise = execs[i].promise
              /\ execs'[i].endCalls >= execs[i].endCalls
         /\ (result'.op = "exec" /\ Len(execs') = Len(execs)) =>
              \/ /\ result'.code = "InvalidRequest"
                 /\ execs' = execs
              \/ \E i \in ExecIds :
                   /\ execs[i].promise = "pending"
                   /\ execs'[i].promise # "pending"
                   /\ \A j \in ExecIds \ {i} : execs'[j] = execs[j]
      ]_vars

\* C30 witness: a call timed out while its Client was still connecting, and
\* end() was called on the Client
C30_Witness ==
  \E i \in ExecIds :
    /\ execs[i].conn = "connecting"
    /\ execs[i].timer = "fired"
    /\ execs[i].promise = "rejected"
    /\ execs[i].endCalls = 1
    /\ result.message = "SSH command timed out after 30000ms"

\* C31: a connect call that is rejected for a missing host, username or
\* credential leaves the handle, the config and the flag as they were, ends no
\* client and calls nothing on the transport, so that a connection installed
\* before the call is still installed and connected after it.
C31_RejectedConnectKeepsSession ==
  [][ (result'.op = "connect" /\ result'.code = "InvalidRequest") =>
        \A args \in scope.connectArgs :
          (validateSSHConfig(SshConfigOf(args)) # NoError /\ connectToSSH(args)) =>
            /\ UNCHANGED SessionState
            /\ UNCHANGED clients
            /\ calls' = <<>>
            /\ Connected => Connected'
    ]_vars

\* C32: in every reachable state the flag is true exactly when a handle is
\* installed, and when it is true the stored config is present and is the
\* config of the connect call that created the installed handle.
C32_FlagHandleConfig ==
  /\ isConnected <=> sshConnection # 0
  /\ isConnected =>
       /\ connectionConfig # NullConfig
       /\ sshConnection \in ClientIds
       /\ connectionConfig = clients[sshConnection].cfg

\* C32 witness: the second connection, to another host, is the installed one
\* while the first has been ended
C32_Witness ==
  /\ isConnected /\ sshConnection = 2
  /\ clients[1].endCalls = 1
  /\ clients[1].cfg.host # clients[2].cfg.host
  /\ connectionConfig.host = clients[2].cfg.host

\* C33: in every reachable state the countdown of an execute call is armed
\* only while the call is pending: a call that has completed with a result, a
\* channel-open failure or a validation error (the working-directory check
\* included) has no countdown running.
C33_NoCountdownOutlivesCall ==
  \A e \in ExecIds :
    execs[e].timer = "armed" => execs[e].promise = "pending"

====
